---- MODULE Spec2Model ----
(***************************************************************************)
(* A model of the genji catalog (database/config.go) and of the bolt       *)
(* secondary index (engine/bolt/index.go).                                 *)
(*                                                                         *)
(* Byte strings ([]byte, string, [6]byte) are sequences of numbers 0..255. *)
(* Two specifications share the module: Spec drives the table-info store,  *)
(* SpecIndex drives the index and its cursor.                              *)
(***************************************************************************)
EXTENDS Integers, Sequences, FiniteSets, TLC

VARIABLES
    store,      \* tableInfoStore.st: key (table name bytes) -> encoded document
    writable,   \* whether the enclosing transaction is writable
    call,       \* the running Insert call: its arguments and its local id
    last,       \* the last call made and what it returned
    pre,        \* history: the store as it was when the last call started
    hist,       \* history per name: what the last successful write of it was
    bucket,     \* Index.b: composite key -> rowid
    sets,       \* history: the (value, rowid) pairs written with Index.Set
    cur,        \* position of the bolt cursor c.c, or NoCursor
    ilast,      \* the last index call made and what it returned
    unique,     \* IndexConfig.Unique of the index
    indexes,    \* indexStore.st: key (index name bytes) -> encoded document
    xlast,      \* the last index-info call made and what it returned
    accepted,   \* history: the configs Insert accepted and Delete has not removed
    input,      \* the tokens handed to the parser
    output,     \* what the parser returned for them
    rb,         \* the RecordBuffer: the records added, in order
    rcur,       \* the recordBufferCursor: its buf, its i, and whether Cursor() made it
    rlast,      \* the last cursor call made and what it returned
    trues       \* history: how often Next has returned true on this cursor

vars == <<store, writable, call, last, pre, hist, bucket, sets, cur, ilast, unique,
          indexes, xlast, accepted, input, output, rb, rcur, rlast, trues>>
catalogVars == <<store, call, last, pre, hist>>
indexVars == <<bucket, sets, cur, ilast>>
infoVars == <<indexes, xlast, accepted>>
parserVars == <<input, output>>
bufferVars == <<rb, rcur, rlast, trues>>
nonCatalogVars == <<indexVars, unique, infoVars, parserVars, bufferVars>>
nonIndexVars == <<catalogVars, unique, infoVars, parserVars, bufferVars>>

Nil == "nil"

\* cur when no cursor was made
NoCursor == -1

-----------------------------------------------------------------------------
(* Bounds and input sets *)

\* how many seconds time.Now().Unix() may lie after T0
MaxTicks == 0

\* 0x61616161: the second whose big-endian bytes read "aaaa"
T0 == ((97 * 256 + 97) * 256 + 97) * 256 + 97

Times == T0 .. (T0 + MaxTicks)

\* what rand.Reader may deliver for id[4:]
RandPairs == {<<97, 97>>, <<97, 98>>}

\* "a", "aaaaaa" (six bytes, like a store id), "b"
TableNames == {<<97>>, <<97, 97, 97, 97, 97, 97>>, <<98>>}

fcID == [Path |-> <<"id">>, Type |-> 2, IsPrimaryKey |-> TRUE, IsNotNull |-> FALSE]
fcCity == [Path |-> <<"address", "city">>, Type |-> 5, IsPrimaryKey |-> FALSE, IsNotNull |-> TRUE]

Configs == {[FieldConstraints |-> <<>>], [FieldConstraints |-> <<fcID, fcCity>>]}

-----------------------------------------------------------------------------
(* Byte strings *)

Min(a, b) == IF a <= b THEN a ELSE b

RECURSIVE BytesLess(_, _)
\* bytes.Compare(a, b) < 0: the order of the keys of the KV store
BytesLess(a, b) ==
    IF b = <<>> THEN FALSE
    ELSE IF a = <<>> THEN TRUE
    ELSE IF Head(a) # Head(b) THEN Head(a) < Head(b)
    ELSE BytesLess(Tail(a), Tail(b))

BytesLeq(a, b) == a = b \/ BytesLess(a, b)

RECURSIVE SortedKeys(_)
\* the keys of S in the order a forward iterator yields them
SortedKeys(S) ==
    IF S = {} THEN <<>>
    ELSE LET m == CHOOSE x \in S : \A y \in S : BytesLeq(x, y)
         IN <<m>> \o SortedKeys(S \ {m})

-----------------------------------------------------------------------------
(* Documents: a FieldBuffer is a sequence of <<field name, value>>, a value *)
(* carries its type tag.                                                    *)

Field(n, v) == [name |-> n, value |-> v]
BlobValue(b) == [t |-> "blob", v |-> b]
TextValue(s) == [t |-> "text", v |-> s]
IntValue(i) == [t |-> "int", v |-> i]
BoolValue(b) == [t |-> "bool", v |-> b]
ArrayValue(a) == [t |-> "array", v |-> a]
DocumentValue(d) == [t |-> "document", v |-> d]

\* d.GetByField(name): the value of the first field called name
GetByField(d, n) ==
    LET i == CHOOSE j \in 1..Len(d) : d[j].name = n /\ \A k \in 1..(j - 1) : d[k].name # n
    IN d[i].value

valuePathToArray(path) == [i \in 1..Len(path) |-> TextValue(path[i])]

arrayToValuePath(v) == [i \in 1..Len(v.v) |-> v.v[i].v]

FieldConstraintToDocument(f) ==
    << Field("path", ArrayValue(valuePathToArray(f.Path))),
       Field("type", IntValue(f.Type)),
       Field("is_primary_key", BoolValue(f.IsPrimaryKey)),
       Field("is_not_null", BoolValue(f.IsNotNull)) >>

\* is_not_null read from the field of is_primary_key
FieldConstraintScanDocumentSwapped(d) ==
    [ Path |-> arrayToValuePath(GetByField(d, "path")),
      Type |-> GetByField(d, "type").v % 256,
      IsPrimaryKey |-> GetByField(d, "is_primary_key").v,
      IsNotNull |-> GetByField(d, "is_primary_key").v ]

FieldConstraintScanDocument(d) ==
    [ Path |-> arrayToValuePath(GetByField(d, "path")),
      Type |-> GetByField(d, "type").v % 256,
      IsPrimaryKey |-> GetByField(d, "is_primary_key").v,
      IsNotNull |-> GetByField(d, "is_not_null").v ]

TableConfigToDocument(t) ==
    << Field("field_constraints",
             ArrayValue([i \in 1..Len(t.FieldConstraints) |->
                            DocumentValue(FieldConstraintToDocument(t.FieldConstraints[i]))])) >>

TableConfigScanDocument(d) ==
    LET ar == GetByField(d, "field_constraints").v
    IN [FieldConstraints |-> [i \in 1..Len(ar) |-> FieldConstraintScanDocument(ar[i].v)]]

tableInfoToDocument(ti) ==
    << Field("storeID", BlobValue(ti.storeID)),
       Field("config", DocumentValue(TableConfigToDocument(ti.cfg))) >>

\* copy(ti.storeID[:], b) into a zeroed [6]byte
CopyStoreID(b) == [i \in 1..6 |-> IF i <= Len(b) THEN b[i] ELSE 0]

tableInfoScanDocument(d) ==
    [ storeID |-> CopyStoreID(GetByField(d, "storeID").v),
      cfg |-> TableConfigScanDocument(GetByField(d, "config").v) ]

\* binary.BigEndian.PutUint32(id[:], uint32(now)) followed by two random bytes; the
\* four bytes taken are the low 32 bits of now
generateStoreID(now, rnd) ==
    << (now \div 16777216) % 256, (now \div 65536) % 256, (now \div 256) % 256, now % 256,
       rnd[1], rnd[2] >>

StoreIDs == {generateStoreID(t, r) : t \in Times, r \in RandPairs}

-----------------------------------------------------------------------------
(* The engine.Store contract the catalog consumes *)

ErrKeyNotFound == "ErrKeyNotFound"
ErrTransactionReadOnly == "ErrTransactionReadOnly"
ErrTableAlreadyExists == "ErrTableAlreadyExists"
ErrTableNotFound == "ErrTableNotFound"

\* encoding.EncodeDocument / encoding.EncodedDocument: the stored bytes give the
\* document back
EncodeDocument(d) == [encoded |-> d]
EncodedDocument(v) == v.encoded

StGet(st, k) ==
    IF k \in DOMAIN st THEN [err |-> Nil, v |-> st[k]] ELSE [err |-> ErrKeyNotFound]

StPut(st, w, k, v) ==
    IF ~w THEN [err |-> ErrTransactionReadOnly, st |-> st]
    ELSE [err |-> Nil, st |-> [x \in DOMAIN st \cup {k} |-> IF x = k THEN v ELSE st[x]]]

\* Delete(key) -> () | KeyNotFound | ReadOnly. The contract does not say which of
\* the two errors a read-only transaction reports for a missing key: engines
\* differ, so both are outcomes.
StDelete(st, w, k) ==
    IF w
    THEN IF k \in DOMAIN st
         THEN {[err |-> Nil, st |-> [x \in DOMAIN st \ {k} |-> st[x]]]}
         ELSE {[err |-> ErrKeyNotFound, st |-> st]}
    ELSE {[err |-> ErrTransactionReadOnly, st |-> st]}
         \cup (IF k \in DOMAIN st THEN {} ELSE {[err |-> ErrKeyNotFound, st |-> st]})

-----------------------------------------------------------------------------
(* tableInfoStore *)

NoTI == [storeID |-> <<>>, cfg |-> [FieldConstraints |-> <<>>]]
NoCall == [active |-> FALSE, name |-> <<>>, cfg |-> [FieldConstraints |-> <<>>], id |-> <<>>]
Hist(state, ti) == [state |-> state, ti |-> ti]

Ret(op, name, err, ret) == [op |-> op, name |-> name, err |-> err, ret |-> ret]

\* the name check made with a key that was never filled in
InsertCheckEmptyKey(st, name) ==
    LET g == StGet(st, <<>>)
    IN IF g.err = Nil THEN ErrTableAlreadyExists ELSE Nil

\* Insert, lines 179-186: the name check
InsertCheck(st, name) ==
    LET g == StGet(st, name)
    IN IF g.err = Nil THEN ErrTableAlreadyExists ELSE Nil

\* the test of the loop turned round: an id nobody holds is discarded
InsertCollidesInverted(st, id) == StGet(st, id).err # Nil

\* Insert, lines 190-200: whether the generated id is discarded
InsertCollides(st, id) == StGet(st, id).err = Nil

\* Insert that writes the entry before it looks whether the name is taken
TableInsertCallUpsert(name, cfg) ==
    /\ ~call.active
    /\ pre' = store
    /\ IF InsertCheck(store, name) # Nil
       THEN /\ last' = Ret("Insert", name, InsertCheck(store, name), Nil)
            /\ store' = StPut(store, writable, name,
                               EncodeDocument(tableInfoToDocument(
                                   [tableInfoScanDocument(EncodedDocument(store[name]))
                                       EXCEPT !.cfg = cfg]))).st
            /\ UNCHANGED call
       ELSE /\ last' = Ret("Insert", name, "running", Nil)
            /\ call' = [active |-> TRUE, name |-> name, cfg |-> cfg, id |-> [i \in 1..6 |-> 0]]
            /\ UNCHANGED store
    /\ UNCHANGED <<writable, hist>>

\* Insert, lines 178-188: up to the loop
TableInsertCall(name, cfg) ==
    /\ ~call.active
    /\ pre' = store
    /\ IF InsertCheck(store, name) # Nil
       THEN /\ last' = Ret("Insert", name, InsertCheck(store, name), Nil)
            /\ UNCHANGED call
       ELSE /\ last' = Ret("Insert", name, "running", Nil)
            /\ call' = [active |-> TRUE, name |-> name, cfg |-> cfg, id |-> [i \in 1..6 |-> 0]]
    /\ UNCHANGED <<store, writable, hist>>

\* one turn of the loop that ends in continue
TableInsertRetry ==
    /\ call.active
    /\ \E t \in Times, r \in RandPairs :
         LET id == generateStoreID(t, r)
         IN /\ InsertCollides(store, id)
            /\ call' = [call EXCEPT !.id = id]
    /\ UNCHANGED <<store, writable, last, pre, hist>>

\* the turn of the loop that breaks, and the rest of Insert
TableInsertPersist ==
    /\ call.active
    /\ \E t \in Times, r \in RandPairs :
         LET id == generateStoreID(t, r)
             ti == [storeID |-> id, cfg |-> call.cfg]
             p == StPut(store, writable, call.name, EncodeDocument(tableInfoToDocument(ti)))
         IN /\ ~InsertCollides(store, id)
            /\ store' = p.st
            /\ IF p.err # Nil
               THEN /\ last' = Ret("Insert", call.name, p.err, Nil)
                    /\ UNCHANGED hist
               ELSE /\ last' = Ret("Insert", call.name, Nil, ti)
                    /\ hist' = [hist EXCEPT ![call.name] = Hist("inserted", ti)]
    /\ call' = NoCall
    /\ UNCHANGED <<writable, pre>>

\* Get, lines 234-251
Get(st, name) ==
    LET g == StGet(st, name)
    IN IF g.err = ErrKeyNotFound THEN [err |-> ErrTableNotFound]
       ELSE [err |-> Nil, ti |-> tableInfoScanDocument(EncodedDocument(g.v))]

TableGet(name) ==
    /\ ~call.active
    /\ pre' = store
    /\ LET g == Get(store, name)
       IN last' = Ret("Get", name, g.err, IF g.err = Nil THEN g.ti ELSE Nil)
    /\ UNCHANGED <<store, writable, call, hist>>

\* a tableInfo built anew around the config, its storeID left zero
ReplaceCfgZeroID(ti, cfg) == [storeID |-> CopyStoreID(<< >>), cfg |-> cfg]

\* Replace, line 225: ti.cfg = cfg on the tableInfo Get returned
ReplaceCfg(ti, cfg) == [ti EXCEPT !.cfg = cfg]

\* Replace, lines 219-232
TableReplace(name, cfg) ==
    /\ ~call.active
    /\ pre' = store
    /\ LET g == Get(store, name)
       IN IF g.err # Nil
          THEN /\ last' = Ret("Replace", name, g.err, Nil)
               /\ UNCHANGED <<store, hist>>
          ELSE LET ti == ReplaceCfg(g.ti, cfg)
                   p == StPut(store, writable, name, EncodeDocument(tableInfoToDocument(ti)))
               IN /\ store' = p.st
                  /\ last' = Ret("Replace", name, p.err, Nil)
                  /\ hist' = IF p.err = Nil THEN [hist EXCEPT ![name] = Hist("replaced", [NoTI EXCEPT !.cfg = cfg])] ELSE hist
    /\ UNCHANGED <<writable, call>>

\* the store's error handed back as it is
DeleteErrRaw(e) == e

\* Delete, lines 256-259: the error Delete hands back for the store's error
DeleteErr(e) == IF e = ErrKeyNotFound THEN ErrTableNotFound ELSE e

\* Delete, lines 253-260
TableDelete(name) ==
    /\ ~call.active
    /\ pre' = store
    /\ \E d \in StDelete(store, writable, name) :
         /\ store' = d.st
         /\ last' = Ret("Delete", name, DeleteErr(d.err), Nil)
         /\ hist' = IF d.err = Nil THEN [hist EXCEPT ![name] = Hist("deleted", NoTI)] ELSE hist
    /\ UNCHANGED <<writable, call>>

\* ListTables over an iterator made with Reverse: true
ListTablesReverse(st) ==
    LET k == SortedKeys(DOMAIN st) IN [i \in 1..Len(k) |-> k[Len(k) + 1 - i]]

\* ListTables, lines 262-271: Seek(nil), then Key() of every item up to !Valid()
ListTables(st) == SortedKeys(DOMAIN st)

TableListTables ==
    /\ ~call.active
    /\ pre' = store
    /\ last' = Ret("ListTables", <<>>, Nil, ListTables(store))
    /\ UNCHANGED <<store, writable, call, hist>>

-----------------------------------------------------------------------------
(* The bolt cursor c.c over the keys of the bucket, in key order. Position 0 is *)
(* the cursor that is on no key (fresh, or moved before the first key), 1..n   *)
(* is on the n-th key, n+1 is where a Seek beyond the last key leaves it.      *)

NilRet == [nil |-> TRUE, value |-> <<>>, rowid |-> <<>>]
KV(k, v) == [nil |-> FALSE, value |-> k, rowid |-> v]

Keys(b) == SortedKeys(DOMAIN b)

At(b, pos) == IF pos \in 1..Len(Keys(b)) THEN KV(Keys(b)[pos], b[Keys(b)[pos]]) ELSE NilRet

boltFirst(b) == LET pos == Min(1, Len(Keys(b))) IN [pos |-> pos, kv |-> At(b, pos)]

boltLast(b) == LET pos == Len(Keys(b)) IN [pos |-> pos, kv |-> At(b, pos)]

boltNext(b, pos) ==
    IF pos >= 1 /\ pos < Len(Keys(b))
    THEN [pos |-> pos + 1, kv |-> At(b, pos + 1)]
    ELSE [pos |-> pos, kv |-> NilRet]

boltPrev(b, pos) ==
    IF pos >= 2
    THEN [pos |-> pos - 1, kv |-> At(b, pos - 1)]
    ELSE [pos |-> 0, kv |-> NilRet]

boltSeek(b, seek) ==
    LET n == Len(Keys(b))
        hits == {i \in 1..n : BytesLeq(seek, Keys(b)[i])}
        pos == IF hits = {} THEN n + 1 ELSE CHOOSE i \in hits : \A j \in hits : i <= j
    IN [pos |-> pos, kv |-> At(b, pos)]

\* Put(key, value) -> () | ErrTxNotWritable
boltPut(b, w, k, v) ==
    IF ~w THEN [err |-> "ErrTxNotWritable", b |-> b]
    ELSE [err |-> Nil, b |-> [x \in DOMAIN b \cup {k} |-> IF x = k THEN v ELSE b[x]]]

-----------------------------------------------------------------------------
(* Index and Cursor, engine/bolt/index.go *)

\* the separator byte '_'
SEP == 95

\* what Set(value, rowid) may be given: "", "a", "a!", "a_", "b"
IndexValues == {<<>>, <<97>>, <<97, 33>>, <<97, SEP>>, <<98>>}
RowIDs == {<<1>>, <<2>>, <<SEP, 1>>}

\* what Seek may be given: "a", "a_", "b", "c"
SeekKeys == {<<97>>, <<97, SEP>>, <<98>>, <<99>>}

\* how many pairs Set may write
MaxEntries == 2

\* Set, lines 25-28: the composite key
CompositeKey(value, rowid) == value \o <<SEP>> \o rowid

\* bytes.LastIndexByte(s, c): the last index (from 0) of c in s, -1 when absent
LastIndexByte(s, c) ==
    LET at == {i \in 1..Len(s) : s[i] = c}
    IN IF at = {} THEN -1 ELSE (CHOOSE i \in at : \A j \in at : j <= i) - 1

\* value[:bytes.LastIndexByte(value, '_')], rowid
Split(kv) ==
    IF kv.nil THEN NilRet
    ELSE KV(SubSeq(kv.value, 1, LastIndexByte(kv.value, SEP)), kv.rowid)

\* Set that hands bolt's error back without translating it
SetUntranslated(b, w, value, rowid) ==
    IF Len(value) = 0 THEN [err |-> "value cannot be nil", b |-> b]
    ELSE LET p == boltPut(b, w, CompositeKey(value, rowid), rowid)
         IN [err |-> p.err, b |-> p.b]

\* Set, lines 20-36: the error and the bucket after it
Set(b, w, value, rowid) ==
    IF Len(value) = 0 THEN [err |-> "value cannot be nil", b |-> b]
    ELSE LET p == boltPut(b, w, CompositeKey(value, rowid), rowid)
         IN [err |-> IF p.err = "ErrTxNotWritable" THEN ErrTransactionReadOnly ELSE p.err,
             b |-> p.b]

\* First, lines 51-58
CursorFirst(b, pos) == LET r == boltFirst(b) IN [pos |-> r.pos, ret |-> Split(r.kv)]

\* Last, lines 60-67
CursorLast(b, pos) == LET r == boltLast(b) IN [pos |-> r.pos, ret |-> Split(r.kv)]

\* Next that goes to First, not Last, when it runs off the end
CursorNextWrap(b, pos) ==
    LET r == boltNext(b, pos)
    IN IF r.kv.nil THEN [pos |-> boltFirst(b).pos, ret |-> NilRet]
       ELSE [pos |-> r.pos, ret |-> Split(r.kv)]

\* Next, lines 69-77
CursorNext(b, pos) ==
    LET r == boltNext(b, pos)
    IN IF r.kv.nil THEN [pos |-> boltLast(b).pos, ret |-> NilRet]
       ELSE [pos |-> r.pos, ret |-> Split(r.kv)]

\* Prev that leaves the cursor where bolt left it when it runs off the start
CursorPrevNoReset(b, pos) ==
    LET r == boltPrev(b, pos)
    IN IF r.kv.nil THEN [pos |-> r.pos, ret |-> NilRet]
       ELSE [pos |-> r.pos, ret |-> Split(r.kv)]

\* Prev, lines 79-87
CursorPrev(b, pos) ==
    LET r == boltPrev(b, pos)
    IN IF r.kv.nil THEN [pos |-> boltFirst(b).pos, ret |-> NilRet]
       ELSE [pos |-> r.pos, ret |-> Split(r.kv)]

\* Seek, lines 89-96
CursorSeek(b, pos, seek) == LET r == boltSeek(b, seek) IN [pos |-> r.pos, ret |-> Split(r.kv)]

IRet(op, arg, err, ret) ==
    [ op |-> op, arg |-> arg, err |-> err, ret |-> ret,
      prevOp |-> ilast.op, prevNil |-> ilast.ret.nil, prevCur |-> cur ]

IndexSet(value, rowid) ==
    /\ Cardinality(sets \cup {<<value, rowid>>}) <= MaxEntries
    /\ LET r == Set(bucket, writable, value, rowid)
       IN /\ bucket' = r.b
          /\ ilast' = IRet("Set", <<value, rowid>>, r.err, NilRet)
          /\ sets' = IF r.err = Nil THEN sets \cup {<<value, rowid>>} ELSE sets
          \* a bolt cursor is not valid across a write: it may be anywhere after it
          /\ IF r.err = Nil /\ cur # NoCursor
             THEN cur' \in 0..(Len(Keys(r.b)) + 1)
             ELSE UNCHANGED cur
    /\ UNCHANGED writable

\* Cursor, lines 38-43
IndexCursor ==
    /\ cur' = 0
    /\ ilast' = IRet("Cursor", <<>>, Nil, NilRet)
    /\ UNCHANGED <<bucket, sets, writable>>

Move(op, arg, r) ==
    /\ cur # NoCursor
    /\ cur' = r.pos
    /\ ilast' = IRet(op, arg, Nil, r.ret)
    /\ UNCHANGED <<bucket, sets, writable>>

First == Move("First", <<>>, CursorFirst(bucket, cur))
Last == Move("Last", <<>>, CursorLast(bucket, cur))
CNext == Move("Next", <<>>, CursorNext(bucket, cur))
Prev == Move("Prev", <<>>, CursorPrev(bucket, cur))
Seek(seek) == Move("Seek", seek, CursorSeek(bucket, cur, seek))

-----------------------------------------------------------------------------
(* indexStore, database/config.go *)

ErrIndexAlreadyExists == "ErrIndexAlreadyExists"
ErrIndexNotFound == "ErrIndexNotFound"

\* index names "i", "j"; table names "t", "u"
IndexNames == {<<105>>, <<106>>}

IndexConfigs ==
    [Unique : BOOLEAN, IndexName : IndexNames, TableName : {<<116>>, <<117>>},
     Path : {<<"a">>, <<"address", "city">>}]

IndexConfigToDocument(i) ==
    << Field("unique", BoolValue(i.Unique)),
       Field("indexname", TextValue(i.IndexName)),
       Field("tablename", TextValue(i.TableName)),
       Field("path", ArrayValue(valuePathToArray(i.Path))) >>

IndexConfigScanDocument(d) ==
    [ Unique |-> GetByField(d, "unique").v,
      IndexName |-> GetByField(d, "indexname").v,
      TableName |-> GetByField(d, "tablename").v,
      Path |-> arrayToValuePath(GetByField(d, "path")) ]

\* Insert with the entry kept under the name of the table
indexStoreInsertByTable(st, w, cfg) ==
    IF StGet(st, cfg.TableName).err = Nil THEN [err |-> ErrIndexAlreadyExists, st |-> st]
    ELSE StPut(st, w, cfg.TableName, EncodeDocument(IndexConfigToDocument(cfg)))

\* Insert, lines 357-373
indexStoreInsert(st, w, cfg) ==
    IF StGet(st, cfg.IndexName).err = Nil THEN [err |-> ErrIndexAlreadyExists, st |-> st]
    ELSE StPut(st, w, cfg.IndexName, EncodeDocument(IndexConfigToDocument(cfg)))

\* Get, lines 375-392
indexStoreGet(st, name) ==
    LET g == StGet(st, name)
    IN IF g.err = ErrKeyNotFound THEN [err |-> ErrIndexNotFound]
       ELSE [err |-> Nil, cfg |-> IndexConfigScanDocument(EncodedDocument(g.v))]

\* ListAll, lines 403-432: every item of a forward iterator, decoded
indexStoreListAll(st) ==
    LET k == SortedKeys(DOMAIN st)
    IN [i \in 1..Len(k) |-> IndexConfigScanDocument(EncodedDocument(st[k[i]]))]

XRet(op, name, err, ret) ==
    [op |-> op, name |-> name, err |-> err, ret |-> ret, before |-> indexes]

IndexInfoInsert(cfg) ==
    /\ LET r == indexStoreInsert(indexes, writable, cfg)
       IN /\ indexes' = r.st
          /\ xlast' = XRet("Insert", cfg.IndexName, r.err, cfg)
          /\ accepted' = IF r.err = Nil THEN accepted \cup {cfg} ELSE accepted
    /\ UNCHANGED writable

IndexInfoGet(name) ==
    /\ LET g == indexStoreGet(indexes, name)
       IN xlast' = XRet("Get", name, g.err, IF g.err = Nil THEN g.cfg ELSE Nil)
    /\ UNCHANGED <<indexes, accepted, writable>>

\* Delete, lines 394-401
IndexInfoDelete(name) ==
    /\ \E d \in StDelete(indexes, writable, name) :
         /\ indexes' = d.st
         /\ xlast' = XRet("Delete", name,
                          IF d.err = ErrKeyNotFound THEN ErrIndexNotFound ELSE d.err, Nil)
         /\ accepted' = IF d.err = Nil THEN {c \in accepted : c.IndexName # name}
                        ELSE accepted
    /\ UNCHANGED writable

IndexInfoListAll ==
    /\ xlast' = XRet("ListAll", <<>>, Nil, indexStoreListAll(indexes))
    /\ UNCHANGED <<indexes, accepted, writable>>

-----------------------------------------------------------------------------
(* Lexer tokens and the recursive-descent parser of the query package (spec 4.3,
   4.4; the package's source is not among the files, its tests are in
   query/parser_test.go).  An input is the token stream the lexer hands over. *)

SyntaxError == "SyntaxError"
MixedParameters == "MixedParameters"

Idents == {"a", "b", "t", "x", "y"}
CmpOps == {"=", "!=", "<", "<=", ">", ">="}
EOF == "EOF"

NoExpr == <<"NoExpr">>

\* the parser: the tokens left, the positional and named parameters met so far in
\* the statement, the error it stopped on and the value of the last production
Parser(toks) == [toks |-> toks, orderedParams |-> 0, namedParams |-> 0,
                 err |-> Nil, val |-> NoExpr]

\* the next token; once the parser has failed no production goes on
Peek(p) == IF p.err # Nil THEN "ERROR" ELSE IF p.toks = << >> THEN EOF ELSE Head(p.toks)
Advance(p) == [p EXCEPT !.toks = Tail(@)]
Fail(p, e) == IF p.err # Nil THEN p ELSE [p EXCEPT !.err = e]
Expect(p, tok) == IF Peek(p) = tok THEN Advance(p) ELSE Fail(p, SyntaxError)
With(p, v) == [p EXCEPT !.val = v]

\* the parser after production r, which started where acc stood, with r's value
\* appended to the list acc holds
AppendVal(acc, r) == IF r.err # Nil THEN r ELSE With(r, Append(acc.val, r.val))

\* the parser after the right operand r of the operator node, l being the left one
Binary(node, l, r) == IF r.err # Nil THEN r ELSE With(r, <<node, l.val, r.val>>)

CmpNode(op) ==
    CASE op = "=" -> "Eq" [] op = "!=" -> "Neq" [] op = "<" -> "Lt"
      [] op = "<=" -> "Lte" [] op = ">" -> "Gt" [] op = ">=" -> "Gte"

\* literal := NUMBER | STRING | TRUE | FALSE | NULL
parseLiteral(p) ==
    CASE Peek(p) = "1" -> With(Advance(p), <<"Int64", 1>>)
      [] Peek(p) = "10.4" -> With(Advance(p), <<"Float64", "10.4">>)
      [] Peek(p) = "'s'" -> With(Advance(p), <<"String", "s">>)
      [] Peek(p) = "TRUE" -> With(Advance(p), <<"Bool", TRUE>>)
      [] Peek(p) = "FALSE" -> With(Advance(p), <<"Bool", FALSE>>)
      [] Peek(p) = "NULL" -> With(Advance(p), <<"Null">>)
      [] OTHER -> Fail(p, SyntaxError)

\* ( '.' IDENT )*, p.val being the field built so far
RECURSIVE parseFieldRest(_)
parseFieldRest(p) ==
    CASE Peek(p) # "." -> p
      [] Peek(Advance(p)) \in Idents ->
           parseFieldRest(With(Advance(Advance(p)),
                               <<"Field", Append(p.val[2], Peek(Advance(p)))>>))
      [] OTHER -> Fail(Advance(p), SyntaxError)

\* field := IDENT ( '.' IDENT )*
parseField(p) ==
    IF Peek(p) \in Idents THEN parseFieldRest(With(Advance(p), <<"Field", <<Peek(p)>> >>))
    ELSE Fail(p, SyntaxError)

\* '$' IDENT
parseNamed(p) ==
    IF Peek(Advance(p)) \in Idents
    THEN With([Advance(Advance(p)) EXCEPT !.namedParams = @ + 1],
              <<"NamedParam", Peek(Advance(p))>>)
    ELSE Fail(Advance(p), SyntaxError)

\* '?', the k-th of the statement being PositionalParam(k)
parsePositional(p) ==
    With([Advance(p) EXCEPT !.orderedParams = @ + 1],
         <<"PositionalParam", p.orderedParams + 1>>)

\* the same, with the positional parameters numbered from zero
parseParamFromZero(p) ==
    CASE Peek(p) = "?" /\ p.namedParams > 0 -> Fail(p, MixedParameters)
      [] Peek(p) = "?" -> With(parsePositional(p), <<"PositionalParam", p.orderedParams>>)
      [] Peek(p) = "$" /\ p.orderedParams > 0 -> Fail(p, MixedParameters)
      [] Peek(p) = "$" -> parseNamed(p)
      [] OTHER -> Fail(p, SyntaxError)

\* the same, refusing only a positional parameter that follows a named one
parseParamOneWay(p) ==
    CASE Peek(p) = "?" /\ p.namedParams > 0 -> Fail(p, MixedParameters)
      [] Peek(p) = "?" -> parsePositional(p)
      [] Peek(p) = "$" -> parseNamed(p)
      [] OTHER -> Fail(p, SyntaxError)

\* param := '?' | '$' IDENT, with the parameter mixing rule
parseParam(p) ==
    CASE Peek(p) = "?" /\ p.namedParams > 0 -> Fail(p, MixedParameters)
      [] Peek(p) = "?" -> parsePositional(p)
      [] Peek(p) = "$" /\ p.orderedParams > 0 -> Fail(p, MixedParameters)
      [] Peek(p) = "$" -> parseNamed(p)
      [] OTHER -> Fail(p, SyntaxError)

RECURSIVE parseOr(_), parseOrRest(_), parseAnd(_), parseAndRest(_), parseCmp(_)
RECURSIVE parsePrimary(_)

\* expr := or_expr
parseExpr(p) == parseOr(p)

\* primary := literal | field | param | '(' expr ')'
parsePrimary(p) ==
    CASE Peek(p) \in {"?", "$"} -> parseParam(p)
      [] Peek(p) \in Idents -> parseField(p)
      [] Peek(p) = "(" -> Expect(parseExpr(Advance(p)), ")")
      [] OTHER -> parseLiteral(p)

\* ( (= | != | < | <= | > | >=) primary )?, l being the left operand
parseCmpRest(l) ==
    IF Peek(l) \notin CmpOps THEN l
    ELSE Binary(CmpNode(Peek(l)), l, parsePrimary(Advance(l)))

\* cmp_expr := primary ( (= | != | < | <= | > | >=) primary )?
parseCmp(p) == parseCmpRest(parsePrimary(p))

\* the same, the right operand of AND taking the OR that follows it
parseAndRestGreedy(p) ==
    IF Peek(p) # "AND" THEN p
    ELSE parseAndRest(Binary("And", p, parseOr(Advance(p))))

\* ( AND cmp_expr )*, p.val being the operand built so far
parseAndRest(p) ==
    IF Peek(p) # "AND" THEN p
    ELSE parseAndRest(Binary("And", p, parseCmp(Advance(p))))

\* and_expr := cmp_expr ( AND cmp_expr )*
parseAnd(p) == parseAndRest(parseCmp(p))

\* ( OR and_expr )*, p.val being the operand built so far
parseOrRest(p) ==
    IF Peek(p) # "OR" THEN p
    ELSE parseOrRest(Binary("Or", p, parseAnd(Advance(p))))

\* or_expr := and_expr ( OR and_expr )*
parseOr(p) == parseOrRest(parseAnd(p))

\* item (',' item)*, p.val being the list built so far: the lists of fields, of
\* expressions, of assignments, of value lists, of pairs and of records
RECURSIVE parseList(_, _), parseItem(_, _)
parseListMore(q, item) == IF Peek(q) = "," THEN parseList(Advance(q), item) ELSE q
parseList(p, item) == parseListMore(AppendVal(p, parseItem(item, p)), item)

\* [WHERE expr], appended to the statement q holds
parseWhere(q) ==
    IF Peek(q) = "WHERE" THEN AppendVal(q, parseExpr(Advance(q)))
    ELSE With(q, Append(q.val, NoExpr))

\* an identifier: a table name, or the key of a pair
parseIdent(p) ==
    IF Peek(p) \in Idents THEN With(Advance(p), Peek(p)) ELSE Fail(p, SyntaxError)

\* '*' | field (',' field)*
parseSelectFields(p) ==
    IF Peek(p) = "*" THEN With(Advance(p), << >>)
    ELSE parseList(With(p, << >>), "Field")

parseFrom(q) == AppendVal(q, parseIdent(Expect(q, "FROM")))

\* SELECT ( '*' | field (',' field)* ) FROM table [WHERE expr]
parseSelect(p) ==
    parseWhere(parseFrom(AppendVal(With(p, <<"Select">>), parseSelectFields(p))))

\* DELETE FROM table [WHERE expr]
parseDelete(p) == parseWhere(parseFrom(With(p, <<"Delete">>)))

\* the expression after the separator, appended to the key q holds
parseKeyed(q, sep) == AppendVal(q, parseExpr(Expect(q, sep)))

\* field '=' expr
parseAssign(p) == parseKeyed(AppendVal(With(p, << >>), parseField(p)), "=")

\* SET field '=' expr (',' field '=' expr)*
parseSet(q) == AppendVal(q, parseList(With(Expect(q, "SET"), << >>), "Assign"))

\* UPDATE table SET field '=' expr (',' field '=' expr)* [WHERE expr]
parseUpdate(p) == parseWhere(parseSet(AppendVal(With(p, <<"Update">>), parseIdent(p))))

\* value_list := '(' expr (',' expr)* ')'
parseValueList(p) == Expect(parseList(With(Expect(p, "("), << >>), "Expr"), ")")

\* pair := IDENT ':' expr
parsePair(p) == parseKeyed(AppendVal(With(p, << >>), parseIdent(p)), ":")

\* '(' pair (',' pair)* ')', the opening parenthesis taken
parseRecordPairs(p) ==
    AppendVal(With(p, <<"Record">>), Expect(parseList(With(p, << >>), "Pair"), ")"))

\* record_spec := '(' pair (',' pair)* ')' | param
parseRecord(p) ==
    CASE Peek(p) = "(" -> parseRecordPairs(Advance(p))
      [] Peek(p) \in {"?", "$"} -> parseParam(p)
      [] OTHER -> Fail(p, SyntaxError)

\* the item of a list
parseItem(item, p) ==
    CASE item = "Field" -> parseField(p)
      [] item = "Expr" -> parseExpr(p)
      [] item = "Assign" -> parseAssign(p)
      [] item = "ValueList" -> parseValueList(p)
      [] item = "Pair" -> parsePair(p)
      [] item = "Record" -> parseRecord(p)

\* [ '(' field (',' field)* ')' ]
parseInsertFields(q) ==
    IF Peek(q) # "(" THEN With(q, << >>)
    ELSE Expect(parseList(With(Advance(q), << >>), "Field"), ")")

\* insert_values | insert_records, q.val being <<"Insert", table, fields>>
parseInsertBody(q) ==
    CASE Peek(q) = "VALUES" ->
           AppendVal(With(q, Append(q.val, "values")),
                     parseList(With(Advance(q), << >>), "ValueList"))
      [] Peek(q) = "RECORDS" /\ q.val[3] = << >> ->
           AppendVal(With(q, Append(q.val, "records")),
                     parseList(With(Advance(q), << >>), "Record"))
      [] OTHER -> Fail(q, SyntaxError)

parseInsertTable(q) == AppendVal(q, parseInsertFields(q))

\* INSERT INTO table ( insert_values | insert_records )
parseInsert(p) ==
    parseInsertBody(parseInsertTable(AppendVal(With(p, <<"Insert">>),
                                               parseIdent(Expect(p, "INTO")))))

\* [IF NOT EXISTS]
parseIfNotExists(q) ==
    IF Peek(q) # "IF" THEN With(q, Append(q.val, FALSE))
    ELSE With(Expect(Expect(Expect(q, "IF"), "NOT"), "EXISTS"), Append(q.val, TRUE))

\* CREATE TABLE IDENT [IF NOT EXISTS]
parseCreate(p) ==
    parseIfNotExists(AppendVal(With(p, <<"CreateTable">>), parseIdent(Expect(p, "TABLE"))))

\* statement dispatch by leading keyword, the keyword taken
parseDispatch(tk, q) ==
    CASE tk = "SELECT" -> parseSelect(q)
      [] tk = "DELETE" -> parseDelete(q)
      [] tk = "UPDATE" -> parseUpdate(q)
      [] tk = "INSERT" -> parseInsert(q)
      [] tk = "CREATE" -> parseCreate(q)

\* a statement; the parameters are counted within the statement
parseStatement(p) ==
    IF Peek(p) \in {"SELECT", "DELETE", "UPDATE", "INSERT", "CREATE"}
    THEN parseDispatch(Peek(p), [Advance(p) EXCEPT !.orderedParams = 0, !.namedParams = 0])
    ELSE Fail(p, SyntaxError)

RECURSIVE parseStatements(_, _)

\* the parser after statement s: a ';' or the end of the input follows
parseStatementEnd(stmts, s) ==
    CASE s.err # Nil -> [err |-> s.err, val |-> << >>]
      [] Peek(s) \notin {";", EOF} -> [err |-> SyntaxError, val |-> << >>]
      [] OTHER -> parseStatements(s, Append(stmts, s.val))

\* the same, taking exactly one ';' after each statement but the last
parseStatementsStrict(p, stmts) ==
    CASE Peek(p) = EOF -> [err |-> Nil, val |-> stmts]
      [] Peek(p) = ";" /\ stmts # << >> /\ Peek(Advance(p)) # ";" ->
           parseStatements(Advance(p), stmts)
      [] Peek(p) = ";" -> [err |-> SyntaxError, val |-> << >>]
      [] OTHER -> parseStatementEnd(stmts, parseStatement(p))

\* zero or more statements separated and optionally terminated by ';'
parseStatements(p, stmts) ==
    CASE Peek(p) = ";" -> parseStatements(Advance(p), stmts)
      [] Peek(p) = EOF -> [err |-> Nil, val |-> stmts]
      [] OTHER -> parseStatementEnd(stmts, parseStatement(p))

ParseQuery(toks) == parseStatements(Parser(toks), << >>)

\* the result of ParseExpr: the expression, which the end of the input follows
parseExprEnd(e) ==
    CASE e.err # Nil -> [err |-> e.err, val |-> NoExpr]
      [] Peek(e) # EOF -> [err |-> SyntaxError, val |-> NoExpr]
      [] OTHER -> [err |-> Nil, val |-> e.val]

\* a single expression
ParseExpr(toks) == parseExprEnd(parseExpr(Parser(toks)))

NoOutput == [fn |-> "none", err |-> Nil, val |-> << >>]

\* bounds of the inputs: operands joined by AND and OR, statements and ';'
MaxOperands == 3
MaxItems == 4

ExprOperands ==
    { <<"a">>, <<"b", "<", "1">>, <<"?">>, <<"$", "x">>, <<"a", "=", "?">>,
      <<"(", "a", "OR", "$", "x", ")">>, <<"a", "=", "=">> }

RECURSIVE ExprSeqs(_)
ExprSeqs(n) ==
    IF n = 1 THEN ExprOperands
    ELSE { s \o <<c>> \o o : s \in ExprSeqs(n - 1), c \in {"AND", "OR"}, o \in ExprOperands }


QueryItems ==
    { <<";">>,
      <<"SELECT", "*", "FROM", "t">>,
      <<"SELECT", "a", ",", "b", "FROM", "t", "WHERE", "a", "=", "?", "OR", "b", ">", "?">>,
      <<"DELETE", "FROM", "t", "WHERE", "a", "=", "$", "x">>,
      <<"DELETE", "FROM", "t", "WHERE", "a", "=", "$", "x", "AND", "b", "!=", "?">>,
      <<"INSERT", "INTO", "t", "RECORDS", "?", ",", "?">>,
      <<"INSERT", "INTO", "t", "(", "a", ",", "b", ")", "VALUES", "(", "?", ",", "1", ")",
        ",", "(", "?", ",", "?", ")">>,
      <<"INSERT", "INTO", "t", "RECORDS", "(", "a", ":", "?", ")", ",", "$", "y">>,
      <<"UPDATE", "t", "SET", "a", "=", "?", ",", "b", "=", "?", "WHERE", "a", "<=", "?">>,
      <<"CREATE", "TABLE", "t", "IF", "NOT", "EXISTS">> }

RECURSIVE QuerySeqs(_)
QuerySeqs(n) ==
    IF n = 0 THEN { << >> }
    ELSE { s \o i : s \in QuerySeqs(n - 1), i \in QueryItems }

Inputs ==
    UNION { ExprSeqs(n) : n \in 1..MaxOperands } \cup UNION { QuerySeqs(n) : n \in 0..MaxItems }

ParseExprCall ==
    /\ output.fn = "none"
    /\ LET r == ParseExpr(input)
       IN output' = [fn |-> "ParseExpr", err |-> r.err, val |-> r.val]
    /\ UNCHANGED input

ParseQueryCall ==
    /\ output.fn = "none"
    /\ LET r == ParseQuery(input)
       IN output' = [fn |-> "ParseQuery", err |-> r.err, val |-> r.val]
    /\ UNCHANGED input

-----------------------------------------------------------------------------
(* RecordBuffer and its cursor, engine/bolt/index.go lines 130-163 *)

\* bound of the buffer
MaxRecords == 3

Records == {"r1", "r2"}
NoRecord == "none"
Panic == "panic: index out of range"

\* no Cursor() call made yet
NoBufferCursor == [made |-> FALSE, buf |-> << >>, i |-> -1]

\* no cursor call made yet
NoBufferCall ==
    [op |-> "none", ret |-> FALSE, rec |-> NoRecord, prevI |-> -1, prevTrues |-> 0]

\* Next that compares c.i, not c.i+1, with len(c.buf)
recordBufferCursorNextLate(buf, i) ==
    IF i >= Len(buf) THEN [ret |-> FALSE, i |-> i] ELSE [ret |-> TRUE, i |-> i + 1]

\* Next, lines 148-155
recordBufferCursorNext(buf, i) ==
    IF i + 1 >= Len(buf) THEN [ret |-> FALSE, i |-> i] ELSE [ret |-> TRUE, i |-> i + 1]

\* Record, lines 157-159: c.buf[c.i], which panics when c.i is not an index of buf
recordBufferCursorRecord(buf, i) ==
    IF i >= 0 /\ i < Len(buf) THEN buf[i + 1] ELSE Panic

BRet(op, ret, rec) == [op |-> op, ret |-> ret, rec |-> rec, prevI |-> rcur.i, prevTrues |-> trues]

\* Add, lines 133-136
BufferAdd(r) ==
    /\ Len(rb) < MaxRecords
    /\ rb' = Append(rb, r)
    /\ UNCHANGED <<rcur, rlast, trues>>

\* Cursor, lines 138-141: the cursor holds the slice as it is now
BufferCursor ==
    /\ rcur' = [made |-> TRUE, buf |-> rb, i |-> -1]
    /\ trues' = 0
    /\ rlast' = [NoBufferCall EXCEPT !.op = "Cursor"]
    /\ UNCHANGED rb

BufferNext ==
    /\ rcur.made
    /\ LET r == recordBufferCursorNext(rcur.buf, rcur.i)
       IN /\ rcur' = [rcur EXCEPT !.i = r.i]
          /\ rlast' = BRet("Next", r.ret, NoRecord)
          /\ trues' = IF r.ret THEN trues + 1 ELSE trues
    /\ UNCHANGED rb

BufferRecord ==
    /\ rcur.made
    /\ rlast' = BRet("Record", FALSE, recordBufferCursorRecord(rcur.buf, rcur.i))
    /\ UNCHANGED <<rb, rcur, trues>>

\* Err, lines 161-163
BufferErr ==
    /\ rcur.made
    /\ rlast' = BRet("Err", FALSE, NoRecord)
    /\ UNCHANGED <<rb, rcur, trues>>

-----------------------------------------------------------------------------

\* the caller ends the transaction (and with it every cursor) and opens another,
\* read-only or read-write
Begin(w) ==
    /\ ~call.active
    /\ writable' = w
    /\ cur' = NoCursor
    /\ last' = Ret("Begin", <<>>, Nil, Nil)
    /\ ilast' = [op |-> "Begin", arg |-> <<>>, err |-> Nil, ret |-> NilRet,
                 prevOp |-> "Begin", prevNil |-> TRUE, prevCur |-> NoCursor]
    /\ pre' = store
    /\ xlast' = [op |-> "Begin", name |-> <<>>, err |-> Nil, ret |-> Nil, before |-> indexes]
    /\ UNCHANGED <<store, call, hist, bucket, sets, unique, indexes, accepted, parserVars,
                   bufferVars>>

-----------------------------------------------------------------------------

Init ==
    /\ store = << >>
    /\ writable = TRUE
    /\ call = NoCall
    /\ last = Ret("Begin", <<>>, Nil, Nil)
    /\ pre = << >>
    /\ hist = [n \in TableNames |-> Hist("fresh", NoTI)]
    /\ bucket = << >>
    /\ sets = {}
    /\ cur = NoCursor
    /\ ilast = [op |-> "Begin", arg |-> <<>>, err |-> Nil, ret |-> NilRet,
                prevOp |-> "Begin", prevNil |-> TRUE, prevCur |-> NoCursor]
    /\ unique = FALSE
    /\ indexes = << >>
    /\ xlast = [op |-> "Begin", name |-> <<>>, err |-> Nil, ret |-> Nil, before |-> << >>]
    /\ accepted = {}
    /\ input = << >>
    /\ output = NoOutput
    /\ rb = << >>
    /\ rcur = NoBufferCursor
    /\ rlast = NoBufferCall
    /\ trues = 0

Next ==
    \/ \E n \in TableNames, c \in Configs : TableInsertCall(n, c) /\ UNCHANGED nonCatalogVars
    \/ TableInsertRetry /\ UNCHANGED nonCatalogVars
    \/ TableInsertPersist /\ UNCHANGED nonCatalogVars
    \/ \E n \in TableNames : TableGet(n) /\ UNCHANGED nonCatalogVars
    \/ \E n \in TableNames, c \in Configs : TableReplace(n, c) /\ UNCHANGED nonCatalogVars
    \/ \E n \in TableNames : TableDelete(n) /\ UNCHANGED nonCatalogVars
    \/ TableListTables /\ UNCHANGED nonCatalogVars
    \/ \E w \in BOOLEAN : Begin(w)

Spec == Init /\ [][Next]_vars

\* Insert with a fair store-id generator: rand.Reader and the clock go on handing
\* out every id they can, so the turn of the loop that breaks is taken if it stays
\* possible
InsertBreak == TableInsertPersist /\ UNCHANGED nonCatalogVars

NextInsert ==
    \/ \E n \in TableNames, c \in Configs : TableInsertCall(n, c) /\ UNCHANGED nonCatalogVars
    \/ TableInsertRetry /\ UNCHANGED nonCatalogVars
    \/ InsertBreak
    \/ \E n \in TableNames : TableDelete(n) /\ UNCHANGED nonCatalogVars
    \/ \E w \in BOOLEAN : Begin(w)

SpecInsertFair == Init /\ [][NextInsert]_vars /\ WF_vars(InsertBreak)

NextIndex ==
    \/ \E v \in IndexValues, r \in RowIDs : IndexSet(v, r) /\ UNCHANGED nonIndexVars
    \/ IndexCursor /\ UNCHANGED nonIndexVars
    \/ First /\ UNCHANGED nonIndexVars
    \/ Last /\ UNCHANGED nonIndexVars
    \/ CNext /\ UNCHANGED nonIndexVars
    \/ Prev /\ UNCHANGED nonIndexVars
    \/ \E k \in SeekKeys : Seek(k) /\ UNCHANGED nonIndexVars
    \/ \E w \in BOOLEAN : Begin(w)

NextInfo ==
    \/ \E c \in IndexConfigs : IndexInfoInsert(c) /\ UNCHANGED <<catalogVars, indexVars, unique, parserVars, bufferVars>>
    \/ \E n \in IndexNames : IndexInfoGet(n) /\ UNCHANGED <<catalogVars, indexVars, unique, parserVars, bufferVars>>
    \/ \E n \in IndexNames : IndexInfoDelete(n) /\ UNCHANGED <<catalogVars, indexVars, unique, parserVars, bufferVars>>
    \/ IndexInfoListAll /\ UNCHANGED <<catalogVars, indexVars, unique, parserVars, bufferVars>>
    \/ \E w \in BOOLEAN : Begin(w)

SpecInfo == Init /\ [][NextInfo]_vars

\* the index is made for an IndexConfig whose Unique is either
InitIndex ==
    /\ unique \in BOOLEAN
    /\ store = << >>
    /\ writable = TRUE
    /\ call = NoCall
    /\ last = Ret("Begin", <<>>, Nil, Nil)
    /\ pre = << >>
    /\ hist = [n \in TableNames |-> Hist("fresh", NoTI)]
    /\ bucket = << >>
    /\ sets = {}
    /\ cur = NoCursor
    /\ ilast = [op |-> "Begin", arg |-> <<>>, err |-> Nil, ret |-> NilRet,
                prevOp |-> "Begin", prevNil |-> TRUE, prevCur |-> NoCursor]
    /\ indexes = << >>
    /\ xlast = [op |-> "Begin", name |-> <<>>, err |-> Nil, ret |-> Nil, before |-> << >>]
    /\ accepted = {}
    /\ input = << >>
    /\ output = NoOutput
    /\ rb = << >>
    /\ rcur = NoBufferCursor
    /\ rlast = NoBufferCall
    /\ trues = 0

SpecIndex == InitIndex /\ [][NextIndex]_vars

nonBufferVars == <<catalogVars, writable, indexVars, unique, infoVars, parserVars>>

NextBuffer ==
    \/ \E r \in Records : BufferAdd(r) /\ UNCHANGED nonBufferVars
    \/ BufferCursor /\ UNCHANGED nonBufferVars
    \/ BufferNext /\ UNCHANGED nonBufferVars
    \/ BufferRecord /\ UNCHANGED nonBufferVars
    \/ BufferErr /\ UNCHANGED nonBufferVars

SpecBuffer == Init /\ [][NextBuffer]_vars

\* the parser is handed any of the inputs
InitParser ==
    /\ store = << >>
    /\ writable = TRUE
    /\ call = NoCall
    /\ last = Ret("Begin", <<>>, Nil, Nil)
    /\ pre = << >>
    /\ hist = [n \in TableNames |-> Hist("fresh", NoTI)]
    /\ bucket = << >>
    /\ sets = {}
    /\ cur = NoCursor
    /\ ilast = [op |-> "Begin", arg |-> <<>>, err |-> Nil, ret |-> NilRet,
                prevOp |-> "Begin", prevNil |-> TRUE, prevCur |-> NoCursor]
    /\ unique = FALSE
    /\ indexes = << >>
    /\ xlast = [op |-> "Begin", name |-> <<>>, err |-> Nil, ret |-> Nil, before |-> << >>]
    /\ accepted = {}
    /\ input \in Inputs
    /\ output = NoOutput
    /\ rb = << >>
    /\ rcur = NoBufferCursor
    /\ rlast = NoBufferCall
    /\ trues = 0

NextParser ==
    \/ ParseExprCall /\ UNCHANGED <<catalogVars, indexVars, unique, infoVars, writable, bufferVars>>
    \/ ParseQueryCall /\ UNCHANGED <<catalogVars, indexVars, unique, infoVars, writable, bufferVars>>

SpecParser == InitParser /\ [][NextParser]_vars

-----------------------------------------------------------------------------
(* Properties of the table-info store, checked under Spec *)

\* C1: no two distinct live table entries hold the same store_id.
StoreIDUnique ==
    \A a \in DOMAIN store, b \in DOMAIN store :
        a # b => Get(store, a).ti.storeID # Get(store, b).ti.storeID

\* C2: Insert returns TableAlreadyExists whenever the name was present when it was
\* called, and returns a TableInfo (six-byte store id, the given config, now
\* persisted under the name) only when the name was absent.
InsertAlreadyExists ==
    last.op = "Insert" =>
        /\ last.name \in DOMAIN pre => last.err = ErrTableAlreadyExists
        /\ last.err = ErrTableAlreadyExists => last.name \in DOMAIN pre
        /\ last.err = Nil =>
              /\ last.name \notin DOMAIN pre
              /\ Len(last.ret.storeID) = 6
              /\ last.ret.cfg \in Configs
              /\ Get(store, last.name) = [err |-> Nil, ti |-> last.ret]

\* C2 witness: the second of two Inserts of one name was refused.
InsertTwiceRefused ==
    /\ last.op = "Insert"
    /\ last.err = ErrTableAlreadyExists
    /\ hist[last.name].state = "inserted"

\* C3: an Insert that returns an error (and an Insert that has not returned yet)
\* leaves the store as it was when it was called.
InsertErrorLeavesStore ==
    (last.op = "Insert" /\ last.err # Nil) => store = pre

\* C3 witness: an Insert failed on its Put in a read-only transaction, over a store
\* that holds tables.
InsertFailedReadOnly ==
    /\ last.op = "Insert"
    /\ last.err = ErrTransactionReadOnly
    /\ DOMAIN store # {}

\* C4 as stated: Get, Replace and Delete of a name without entry return
\* TableNotFound and leave the store unchanged; after a successful Delete of a
\* name, Get of it returns TableNotFound until it is inserted again.
MissingIsTableNotFound ==
    /\ (last.op \in {"Get", "Replace", "Delete"} /\ last.name \notin DOMAIN pre) =>
          (last.err = ErrTableNotFound /\ store = pre)
    /\ (last.op = "Get" /\ hist[last.name].state = "deleted") =>
          last.err = ErrTableNotFound

\* C4 amended: as C4, but a Delete of a name without entry returns TableNotFound in
\* a writable transaction, and TableNotFound or ReadOnly in a read-only one.
MissingIsTableNotFoundOrReadOnly ==
    /\ (last.op \in {"Get", "Replace"} /\ last.name \notin DOMAIN pre) =>
          (last.err = ErrTableNotFound /\ store = pre)
    /\ (last.op = "Delete" /\ last.name \notin DOMAIN pre) =>
          /\ store = pre
          /\ writable => last.err = ErrTableNotFound
          /\ ~writable => last.err \in {ErrTableNotFound, ErrTransactionReadOnly}
    /\ (last.op = "Get" /\ hist[last.name].state = "deleted") =>
          last.err = ErrTableNotFound

\* C4 witness: a Delete of a missing name in a read-only transaction returned
\* TableNotFound, a Get of a deleted name having been possible before.
DeleteMissingReadOnly ==
    /\ last.op = "Delete"
    /\ last.name \notin DOMAIN pre
    /\ ~writable
    /\ last.err = ErrTableNotFound
    /\ hist[last.name].state = "deleted"

\* C5: while the last successful write of a name is an Insert, Get of the name
\* returns the store id that Insert returned and the config it was given; this
\* holds of the Get just made and of any Get that could be made now.
GetReturnsInserted ==
    /\ (last.op = "Get" /\ hist[last.name].state = "inserted") =>
          /\ last.err = Nil
          /\ last.ret.storeID = hist[last.name].ti.storeID
          /\ last.ret.cfg = hist[last.name].ti.cfg
    /\ \A n \in TableNames :
          hist[n].state = "inserted" => Get(store, n) = [err |-> Nil, ti |-> hist[n].ti]

\* C5 witness: a Get of an inserted table with field constraints, made after
\* another name was replaced or deleted.
GetAfterOtherWrites ==
    /\ last.op = "Get"
    /\ hist[last.name].state = "inserted"
    /\ last.ret.cfg.FieldConstraints # <<>>
    /\ \E m \in TableNames \ {last.name} : hist[m].state \in {"replaced", "deleted"}

\* C6: ListTables returns exactly the names of the live tables, each once, in
\* strictly ascending lexicographic order.
ListTablesSorted ==
    last.op = "ListTables" =>
        /\ {last.ret[i] : i \in 1..Len(last.ret)} = DOMAIN store
        /\ Len(last.ret) = Cardinality(DOMAIN store)
        /\ \A i \in 1..(Len(last.ret) - 1) : BytesLess(last.ret[i], last.ret[i + 1])

\* C6 witness: ListTables returned the names of three tables, one of which had
\* been replaced.
ListTablesOfThree ==
    /\ last.op = "ListTables"
    /\ Len(last.ret) = 3
    /\ \E n \in TableNames : hist[n].state = "replaced"

\* C18: a successful Replace(name, cfg) leaves name with the store_id it had and
\* the config given, the names ListTables returns as they were, and every other
\* table's store_id and config as they were.
ReplaceChangesOnlyConfig ==
    (last.op = "Replace" /\ last.err = Nil) =>
        /\ last.name \in DOMAIN pre
        /\ Get(store, last.name).ti.storeID = Get(pre, last.name).ti.storeID
        /\ Get(store, last.name).ti.cfg = hist[last.name].ti.cfg
        /\ ListTables(store) = ListTables(pre)
        /\ \A n \in DOMAIN pre \ {last.name} : Get(store, n) = Get(pre, n)

\* C18 witness: Replace gave a table another config while another table existed.
ReplacedAmongTwo ==
    /\ last.op = "Replace" /\ last.err = Nil
    /\ Cardinality(DOMAIN store) >= 2
    /\ Get(store, last.name).ti.cfg # Get(pre, last.name).ti.cfg

-----------------------------------------------------------------------------
(* Termination of Insert, checked under SpecInsertFair *)

\* some id the generator can hand out is the store_id of no table
UnusedStoreID ==
    \E id \in StoreIDs : \A n \in DOMAIN store : Get(store, n).ti.storeID # id

\* the last call was an Insert that returned the TableInfo it stored, or an error
InsertReturned ==
    /\ ~call.active
    /\ last.op = "Insert"
    /\ IF last.err = Nil
       THEN /\ last.ret.storeID \in StoreIDs
            /\ Get(store, last.name) = [err |-> Nil, ti |-> last.ret]
       ELSE last.err \in {ErrTableAlreadyExists, ErrTransactionReadOnly}

\* C19: an Insert of an absent name that has entered the loop, some store_id being
\* unused, eventually leaves it and returns the new TableInfo or an error.
InsertTerminates == (call.active /\ UnusedStoreID) ~> InsertReturned

\* C19 witness: the loop has discarded an id and some store_id is unused.
InsertRetriedOnce ==
    /\ call.active /\ UnusedStoreID
    /\ call.id \in DOMAIN store

-----------------------------------------------------------------------------
(* Properties of the index and its cursor, checked under SpecIndex *)

RECURSIVE Walk(_, _, _)
\* what Next returns, call after call, up to the end sentinel
Walk(b, pos, fuel) ==
    IF fuel = 0 THEN <<>>
    ELSE LET r == CursorNext(b, pos)
         IN IF r.ret.nil THEN <<>> ELSE <<r.ret>> \o Walk(b, r.pos, fuel - 1)

\* First, then Next until the end sentinel
ForwardTraversal(b) ==
    LET f == CursorFirst(b, 0)
    IN IF f.ret.nil THEN <<>> ELSE <<f.ret>> \o Walk(b, f.pos, Len(Keys(b)))

Pair(r) == <<r.value, r.rowid>>

\* ascending indexed value, equal values by ascending rowid
PairLess(p, q) == BytesLess(p[1], q[1]) \/ (p[1] = q[1] /\ BytesLess(p[2], q[2]))

HasSEP(s) == \E i \in 1..Len(s) : s[i] = SEP

KeyAtCursor == Keys(bucket)[cur]

WrittenAs(k) == {p \in sets : CompositeKey(p[1], p[2]) = k}

Least(S) == CHOOSE k \in S : \A x \in S : BytesLeq(k, x)

Moves == {"First", "Last", "Next", "Prev", "Seek"}

\* C7: a forward traversal (First, then Next to the end sentinel) yields every
\* written pair exactly once, in ascending order of value, equal values in
\* ascending order of rowid. Stated here of the indexes none of whose rowids holds
\* the separator byte, where every key splits back into its pair (C8); the claim
\* says it of every index.
ForwardTraversalAscending ==
    (\A p \in sets : ~HasSEP(p[2])) =>
        LET t == ForwardTraversal(bucket)
        IN /\ {Pair(t[i]) : i \in 1..Len(t)} = sets
           /\ Len(t) = Cardinality(sets)
           /\ \A i \in 1..(Len(t) - 1) : PairLess(Pair(t[i]), Pair(t[i + 1]))

\* C8: the pair a cursor call returns is a pair that was written, the one whose
\* composite key the cursor is on.
CursorReturnsWrittenPair ==
    (ilast.op \in Moves /\ ~ilast.ret.nil) =>
        Pair(ilast.ret) \in WrittenAs(KeyAtCursor)

\* C9: a Next that follows a Next that returned (nil, nil) returns (nil, nil) and
\* leaves the cursor where it was; the same of Prev after Prev.
ExhaustedStaysExhausted ==
    \A op \in {"Next", "Prev"} :
        (ilast.op = op /\ ilast.prevOp = op /\ ilast.prevNil) =>
            (ilast.ret.nil /\ cur = ilast.prevCur)

\* C9 witness: Next was called again after it had returned (nil, nil) on an index
\* of two keys.
NextAfterExhaustedNext ==
    /\ ilast.op = "Next"
    /\ ilast.prevOp = "Next"
    /\ ilast.prevNil
    /\ Cardinality(DOMAIN bucket) = 2

\* C10: Seek(prefix) returns the pair written as the smallest key >= prefix, or
\* (nil, nil) when there is no such key, and a Next that follows a Seek that found
\* a key returns the pair written as the key after it, or (nil, nil) at the end.
SeekLandsOnLeastKey ==
    /\ ilast.op = "Seek" =>
          LET hits == {k \in DOMAIN bucket : BytesLeq(ilast.arg, k)}
          IN IF hits = {} THEN ilast.ret.nil
             ELSE ~ilast.ret.nil /\ Pair(ilast.ret) \in WrittenAs(Least(hits))
    /\ (ilast.op = "Next" /\ ilast.prevOp = "Seek" /\ ~ilast.prevNil) =>
          LET later == {k \in DOMAIN bucket : BytesLess(Keys(bucket)[ilast.prevCur], k)}
          IN IF later = {} THEN ilast.ret.nil
             ELSE ~ilast.ret.nil /\ Pair(ilast.ret) \in WrittenAs(Least(later))

\* C11: an index whose configuration says Unique never holds one value with two
\* rowids (the second Set of the value is refused).
UniqueIndexOneRowIDPerValue ==
    unique => \A p \in sets, q \in sets : p[1] = q[1] => p[2] = q[2]

\* C12 as stated: a Set made in a transaction that is not writable returns ReadOnly
\* and leaves the bucket as it was, and First and Last still answer from the bucket.
SetReadOnlyRefused ==
    /\ [](~writable /\ ilast.op = "Set" => ilast.err = ErrTransactionReadOnly)
    /\ [][(~writable /\ ilast'.op = "Set") => bucket' = bucket]_vars
    /\ [](~writable /\ ilast.op \in {"First", "Last"} =>
            (ilast.ret.nil <=> bucket = << >>))

\* C12 amended: as C12 for a Set of a non-empty value; a Set of an empty value
\* returns the error of the empty value instead, and writes nothing either.
SetReadOnlyRefusedNonEmpty ==
    /\ [](~writable /\ ilast.op = "Set" =>
            ilast.err = IF ilast.arg[1] = <<>> THEN "value cannot be nil"
                        ELSE ErrTransactionReadOnly)
    /\ [][(~writable /\ ilast'.op = "Set") => bucket' = bucket]_vars
    /\ [](~writable /\ ilast.op \in {"First", "Last"} =>
            (ilast.ret.nil <=> bucket = << >>))

\* C12 witness: in a read-only transaction over a bucket that holds keys, a Set was
\* refused with ReadOnly right after the cursor had returned a pair.
SetRefusedAfterTraversal ==
    /\ ~writable
    /\ ilast.op = "Set"
    /\ ilast.err = ErrTransactionReadOnly
    /\ ilast.prevOp \in Moves
    /\ ~ilast.prevNil
    /\ bucket # << >>

\* C20: a Next that returns (nil, nil) leaves the cursor on the last entry and a
\* Prev that returns (nil, nil) leaves it on the first; so with two entries or
\* more, the Prev right after an exhausting Next stands on the entry before the
\* last and returns it, and the Next right after an exhausting Prev stands on the
\* second entry and returns it.
ExhaustedCursorResets ==
    LET n == Len(Keys(bucket))
    IN /\ (ilast.op = "Next" /\ ilast.ret.nil /\ n >= 1) => cur = n
       /\ (ilast.op = "Prev" /\ ilast.ret.nil /\ n >= 1) => cur = 1
       /\ (ilast.op = "Prev" /\ ilast.prevOp = "Next" /\ ilast.prevNil /\ n >= 2) =>
             (~ilast.ret.nil /\ cur = n - 1 /\ ilast.ret = Split(At(bucket, n - 1)))
       /\ (ilast.op = "Next" /\ ilast.prevOp = "Prev" /\ ilast.prevNil /\ n >= 2) =>
             (~ilast.ret.nil /\ cur = 2 /\ ilast.ret = Split(At(bucket, 2)))

\* C20 witness: Next was called right after Prev had returned (nil, nil) on an
\* index of two entries or more, and returned an entry.
NextAfterExhaustedPrev ==
    /\ ilast.op = "Next" /\ ilast.prevOp = "Prev" /\ ilast.prevNil
    /\ Len(Keys(bucket)) >= 2
    /\ ~ilast.ret.nil

-----------------------------------------------------------------------------
(* Properties of the index-info store, checked under SpecInfo *)

\* C13: Insert(cfg) returns IndexAlreadyExists and leaves the store as it was
\* whenever an entry named cfg.IndexName exists, whatever its table and path; so no
\* two accepted configs share a name, while configs that share table and path
\* under different names are accepted (in a writable transaction), and ListAll
\* returns exactly the accepted configs, each once.
IndexNameUnique ==
    /\ xlast.op = "Insert" =>
          /\ xlast.name \in DOMAIN xlast.before =>
                (xlast.err = ErrIndexAlreadyExists /\ indexes = xlast.before)
          /\ (xlast.name \notin DOMAIN xlast.before /\ writable) =>
                (xlast.err = Nil /\ xlast.ret \in accepted)
    /\ \A a \in accepted, b \in accepted : a.IndexName = b.IndexName => a = b
    /\ xlast.op = "ListAll" =>
          /\ {xlast.ret[i] : i \in 1..Len(xlast.ret)} = accepted
          /\ Len(xlast.ret) = Cardinality(accepted)

\* C13 witness: ListAll returned two configs of one table and path.
ListAllSameTableAndPath ==
    /\ xlast.op = "ListAll"
    /\ Len(xlast.ret) = 2
    /\ xlast.ret[1].TableName = xlast.ret[2].TableName
    /\ xlast.ret[1].Path = xlast.ret[2].Path

-----------------------------------------------------------------------------
(* Properties of the parser, checked under SpecParser *)

Count(toks, tk) == Cardinality({i \in 1..Len(toks) : toks[i] = tk})

\* the input cut at its ';', the empty pieces left out
RECURSIVE StatementTexts(_, _, _)
StatementTexts(toks, piece, done) ==
    IF toks = << >> THEN IF piece = << >> THEN done ELSE Append(done, piece)
    ELSE IF Head(toks) = ";"
         THEN StatementTexts(Tail(toks), << >>,
                             IF piece = << >> THEN done ELSE Append(done, piece))
         ELSE StatementTexts(Tail(toks), Append(piece, Head(toks)), done)

\* the texts the parameter rules speak of: the expression, or each statement
Texts == IF output.fn = "ParseExpr" THEN <<input>> ELSE StatementTexts(input, << >>, << >>)

\* what was parsed out of each of them
Trees == IF output.fn = "ParseExpr" THEN <<output.val>> ELSE output.val

\* the input with every positional parameter written as a named one
RECURSIVE AllNamed(_)
AllNamed(toks) ==
    IF toks = << >> THEN << >>
    ELSE (IF Head(toks) = "?" THEN <<"$", "x">> ELSE <<Head(toks)>>) \o AllNamed(Tail(toks))

\* the input follows the grammar, whatever the kinds of its parameters
Grammatical ==
    IF output.fn = "ParseExpr" THEN ParseExpr(AllNamed(input)).err = Nil
    ELSE ParseQuery(AllNamed(input)).err = Nil

Mixes(text) == Count(text, "?") > 0 /\ Count(text, "$") > 0

\* C14: of the inputs that follow the grammar, exactly those in which a positional
\* and a named parameter appear in the same statement or expression, in either
\* order, fail with MixedParameters; the others are accepted.
MixedParametersRefused ==
    (output.fn # "none" /\ Grammatical) =>
        IF \E i \in 1..Len(Texts) : Mixes(Texts[i])
        THEN output.err = MixedParameters
        ELSE output.err = Nil

\* C14 witness: an expression refused whose first parameter is a named one and
\* which has a positional one after it.
NamedThenPositionalRefused ==
    /\ output.fn = "ParseExpr" /\ output.err = MixedParameters /\ Grammatical
    /\ \E i \in 1..Len(input) :
          /\ input[i] = "$"
          /\ \A j \in 1..i : input[j] # "?"
          /\ \E j \in i..Len(input) : input[j] = "?"

RECURSIVE Positionals(_)
\* the numbers of the positional parameters of an expression, left to right
Positionals(e) ==
    CASE e[1] = "PositionalParam" -> <<e[2]>>
      [] e[1] \in {"And", "Or", "Eq", "Neq", "Lt", "Lte", "Gt", "Gte"} ->
           Positionals(e[2]) \o Positionals(e[3])
      [] OTHER -> << >>

\* the same of a list of expressions, of pairs, of records, and of lists of lists
RECURSIVE PositionalsOfList(_)
PositionalsOfList(l) ==
    IF l = << >> THEN << >> ELSE Positionals(Head(l)) \o PositionalsOfList(Tail(l))

RECURSIVE PositionalsOfPairs(_)
PositionalsOfPairs(l) ==
    IF l = << >> THEN << >> ELSE Positionals(Head(l)[2]) \o PositionalsOfPairs(Tail(l))

RECURSIVE PositionalsOfRecords(_)
PositionalsOfRecords(l) ==
    IF l = << >> THEN << >>
    ELSE (IF Head(l)[1] = "Record" THEN PositionalsOfPairs(Head(l)[2])
          ELSE Positionals(Head(l))) \o PositionalsOfRecords(Tail(l))

RECURSIVE PositionalsOfLists(_)
PositionalsOfLists(l) ==
    IF l = << >> THEN << >> ELSE PositionalsOfList(Head(l)) \o PositionalsOfLists(Tail(l))

\* the same of a statement or an expression
PositionalsOf(s) ==
    CASE s[1] = "Select" -> Positionals(s[4])
      [] s[1] = "Delete" -> Positionals(s[3])
      [] s[1] = "Update" -> PositionalsOfPairs(s[3]) \o Positionals(s[4])
      [] s[1] = "Insert" -> IF s[4] = "values" THEN PositionalsOfLists(s[5])
                            ELSE PositionalsOfRecords(s[5])
      [] OTHER -> Positionals(s)

\* C15: in every parsed statement or expression the positional parameters carry,
\* left to right, the numbers 1..n, n being the number of '?' in its text.
PositionalsNumbered ==
    (output.fn # "none" /\ output.err = Nil) =>
        /\ Len(Trees) = Len(Texts)
        /\ \A i \in 1..Len(Trees) :
              PositionalsOf(Trees[i]) = [k \in 1..Count(Texts[i], "?") |-> k]

\* C15 witness: a query of two statements was parsed, an INSERT ... RECORDS ?, ? the
\* second, the first with positional parameters of its own.
RecordsPositionalsNumbered ==
    /\ output.fn = "ParseQuery" /\ output.err = Nil /\ Len(output.val) = 2
    /\ Count(Texts[1], "?") > 0
    /\ output.val[2][1] = "Insert"
    /\ output.val[2][5] = << <<"PositionalParam", 1>>, <<"PositionalParam", 2>> >>

\* the text parsed as one statement that the end of the input follows
StatementAlone(text) == parseStatementEnd(<< >>, parseStatement(Parser(text)))

\* C16: ParseQuery returns one statement for each non-empty piece between ';', in the
\* order of the text: if each piece is a statement the query is accepted, runs of
\* ';' and a trailing ';' add nothing, and an input without statement gives the
\* empty list.
StatementsInOrder ==
    output.fn = "ParseQuery" =>
        /\ (\A i \in 1..Len(Texts) : StatementAlone(Texts[i]).err = Nil) => output.err = Nil
        /\ output.err = Nil =>
              /\ Len(output.val) = Len(Texts)
              /\ \A i \in 1..Len(Texts) : <<output.val[i]>> = StatementAlone(Texts[i]).val

\* C16 witness: two statements parsed from an input with a run of ';' between them.
TwoStatementsAcrossRun ==
    /\ output.fn = "ParseQuery" /\ output.err = Nil /\ Len(output.val) = 2
    /\ output.val[1][1] # output.val[2][1]
    /\ \E i \in 1..(Len(input) - 1) : input[i] = ";" /\ input[i + 1] = ";"

\* the operand parsed on its own, k positional parameters standing before it
Operand(text, k) == parseCmp([Parser(text) EXCEPT !.orderedParams = k]).val

Node(c, l, r) == <<IF c = "AND" THEN "And" ELSE "Or", l, r>>

\* C17: for operands a, b, c joined by AND and OR, the tree is Or(And(a, b), c) for
\* 'a AND b OR c' and Or(a, And(b, c)) for 'a OR b AND c', and two ANDs or two ORs
\* group to the left.
AndBindsTighter ==
    (output.fn = "ParseExpr" /\ output.err = Nil) =>
        \A a \in ExprOperands, b \in ExprOperands, c \in ExprOperands :
            \A c1 \in {"AND", "OR"}, c2 \in {"AND", "OR"} :
                input = a \o <<c1>> \o b \o <<c2>> \o c =>
                    LET x == Operand(a, 0)
                        y == Operand(b, Count(a, "?"))
                        z == Operand(c, Count(a, "?") + Count(b, "?"))
                    IN output.val = IF c1 = "OR" /\ c2 = "AND"
                                    THEN Node("OR", x, Node("AND", y, z))
                                    ELSE Node(c2, Node(c1, x, y), z)

\* C17 witness: 'a OR b AND c' was parsed, the AND under the OR on its right.
OrOfAndParsed ==
    /\ output.fn = "ParseExpr" /\ output.err = Nil
    /\ Count(input, "(") = 0 /\ Count(input, "OR") = 1 /\ Count(input, "AND") = 1
    /\ output.val[1] = "Or" /\ output.val[3][1] = "And"

-----------------------------------------------------------------------------
(* Properties of the RecordBuffer cursor, checked under SpecBuffer *)

\* C21: for a cursor made over n records, Next returns true exactly while fewer than
\* n Nexts have returned true and false afterwards; the index stays within
\* -1..n-1; a true Next moves it by one and a false Next leaves it; Record, once a
\* Next has returned true, returns the record added at that turn and never indexes
\* out of range.
BufferCursorInRange ==
    LET n == Len(rcur.buf)
    IN /\ rcur.i \in -1..(n - 1)
       /\ trues <= n
       /\ rlast.op = "Next" =>
             /\ rlast.ret = (rlast.prevTrues < n)
             /\ rcur.i = IF rlast.ret THEN rlast.prevI + 1 ELSE rlast.prevI
       /\ (rlast.op = "Record" /\ trues >= 1) =>
             (rlast.rec # Panic /\ rlast.rec = rb[trues])

\* C21 witness: a cursor over two records or more, all of them returned by Record
\* or passed, has answered false to one more Next.
BufferCursorExhausted ==
    /\ rlast.op = "Next" /\ ~rlast.ret
    /\ Len(rcur.buf) >= 2
    /\ trues = Len(rcur.buf)

====
